---- MODULE Spec2Model ----
(***************************************************************************)
(* Model of the monty-near build pipeline (src/src/main.rs).               *)
(*                                                                         *)
(* One invocation of the CLI runs build_contract once, strictly            *)
(* sequentially.  The model follows the position of that one thread of     *)
(* control (pc) through the stages of build_contract, the files it reads   *)
(* and writes (the build-scratch directory and the caller's output path),  *)
(* and the outcomes of the external collaborators (bytecode compiler,      *)
(* cargo, wasm-opt, wasm-tools), which are chosen nondeterministically.    *)
(* The file system outlives a run, so the model lets run follow run over   *)
(* the same scratch directory and output path.                             *)
(*                                                                         *)
(* Environment assumptions: file-system calls other than reading the       *)
(* input succeed; a cargo that exits non-zero and a wasm-opt that exits    *)
(* non-zero leave the files they were given as they found them.            *)
(***************************************************************************)
EXTENDS Integers, Sequences, FiniteSets, TLC

\* Largest file size, in abstract units: cargo's artifact has this size and
\* wasm-opt writes a file of any size up to it.
MaxSize == 1
\* Longest source, in top-level statements, given to discovery on its own.
MaxStmts == 3
\* Longest glue template, in items, given to the splicing on its own.
MaxTemplateItems == 3
\* Largest file size given to the size-saving computation on its own.
MaxBytes == 7

(***************************************************************************)
(* Names are sequences of characters, so that starts_with('_') is a test   *)
(* on the first character.                                                 *)
(***************************************************************************)
NameA == <<"a">>
NameB == <<"b">>
NameHelper == <<"_", "h">>
NameClass == <<"C">>
NameC == <<"c">>

\* Absent / present values: <<>> is None, <<x>> is Some(x).
None == <<>>
Some(x) == <<x>>
IsSome(o) == Len(o) = 1
Get(o) == o[1]

(***************************************************************************)
(* Python sources.  A module body is a sequence of top-level statements;   *)
(* a statement has a kind (ruff's Stmt variant), a name, and the names of  *)
(* the function definitions nested inside it.                              *)
(***************************************************************************)
FunctionDef(n) == [kind |-> "FunctionDef", name |-> n, nested |-> <<>>]
ClassDef(n, inner) == [kind |-> "ClassDef", name |-> n, nested |-> inner]

\* The inputs of a run: a source with one public function; a source with two
\* public functions, a private one and a class holding a method; a source
\* with no eligible function; and a source the parser rejects.
SrcOne == [valid |-> TRUE, body |-> << FunctionDef(NameA) >>]
SrcTwo ==
    [valid |-> TRUE,
     body |-> << FunctionDef(NameA), FunctionDef(NameHelper),
                 ClassDef(NameClass, <<NameB>>), FunctionDef(NameB) >>]
SrcNone ==
    [valid |-> TRUE,
     body |-> << FunctionDef(NameHelper), ClassDef(NameClass, <<NameA>>) >>]
SrcBad == [valid |-> FALSE, body |-> <<>>]

Sources == {SrcOne, SrcTwo, SrcNone, SrcBad}

\* Mutant of StartsWithUnderscore: no name counts as private.
StartsWithUnderscore_Never(name) == FALSE

\* str::starts_with('_')
StartsWithUnderscore(name) == Len(name) >= 1 /\ name[1] = "_"

\* find_exported_functions, the loop over module.body: the names of the
\* top-level FunctionDef statements whose name does not start with '_'.
RECURSIVE CollectFunctions(_)
CollectFunctions(body) ==
    IF body = <<>> THEN <<>>
    ELSE LET stmt == Head(body)
         IN  IF stmt.kind = "FunctionDef" /\ ~StartsWithUnderscore(stmt.name)
             THEN <<stmt.name>> \o CollectFunctions(Tail(body))
             ELSE CollectFunctions(Tail(body))

\* find_exported_functions: Err on a parse error, else Ok(functions).
find_exported_functions(source) ==
    IF ~source.valid THEN [ok |-> FALSE, names |-> <<>>]
    ELSE [ok |-> TRUE, names |-> CollectFunctions(source.body)]

(***************************************************************************)
(* generate_dispatcher: one branch per name, "if" for index 0 and "elif"   *)
(* for the others, each testing _method against the name and calling it.   *)
(***************************************************************************)
\* Mutant of DispatcherBranch: every branch is an "if".
DispatcherBranch_AlwaysIf(i, name) == [kw |-> "if", test |-> name, call |-> name]

DispatcherBranch(i, name) ==
    [kw |-> IF i = 1 THEN "if" ELSE "elif", test |-> name, call |-> name]

\* Mutant of generate_dispatcher: the branch of the last name is left out.
generate_dispatcher_DropsLast(method_names) ==
    [i \in 1..(Len(method_names) - 1) |-> DispatcherBranch(i, method_names[i])]

generate_dispatcher(method_names) ==
    [i \in 1..Len(method_names) |-> DispatcherBranch(i, method_names[i])]

\* precompile_contract on success: the blob of the program source + dispatcher.
CompiledBlob(source, method_names) ==
    [body |-> source.body, dispatcher |-> generate_dispatcher(method_names)]

(***************************************************************************)
(* generate_lib_rs.  The glue template is a sequence of items; two of them *)
(* are the splice markers.  str::replace substitutes every occurrence of a *)
(* marker by the generated fragment.                                       *)
(***************************************************************************)
Item(kind, sym, sel) == [kind |-> kind, sym |-> sym, sel |-> sel]
MARKER_BYTECODE == Item("marker_bytecode", <<>>, <<>>)
MARKER_EXPORTS == Item("marker_exports", <<>>, <<>>)

TEMPLATE_LIB_RS ==
    << Item("prelude", <<>>, <<>>),
       MARKER_BYTECODE,
       Item("run_method", <<>>, <<>>),
       MARKER_EXPORTS >>

\* Mutant of Replace: only the first occurrence is replaced (replacen(.., 1)).
RECURSIVE Replace_FirstOnly(_, _, _)
Replace_FirstOnly(text, marker, fragment) ==
    IF text = <<>> THEN <<>>
    ELSE IF Head(text) = marker THEN fragment \o Tail(text)
    ELSE <<Head(text)>> \o Replace_FirstOnly(Tail(text), marker, fragment)

RECURSIVE Replace(_, _, _)
Replace(text, marker, fragment) ==
    IF text = <<>> THEN <<>>
    ELSE IF Head(text) = marker
         THEN fragment \o Replace(Tail(text), marker, fragment)
         ELSE <<Head(text)>> \o Replace(Tail(text), marker, fragment)

BytecodeStatic == << Item("static_bytecode", <<>>, <<>>) >>

\* Mutant of ExportBlock: every export hands the same selector to run_method.
ExportBlock_FixedSelector(name) == Item("export", name, NameA)

\* One #[no_mangle] export: symbol name, and the selector handed to run_method.
ExportBlock(name) == Item("export", name, name)

ExportBlocks(method_names) ==
    [i \in 1..Len(method_names) |-> ExportBlock(method_names[i])]

\* generate_lib_rs, the two replace calls on a template.
SpliceTemplate(template, method_names) ==
    Replace(Replace(template, MARKER_BYTECODE, BytecodeStatic),
            MARKER_EXPORTS, ExportBlocks(method_names))

\* generate_lib_rs returns a String: it has no error to return.
generate_lib_rs_result(template) == "ok"

generate_lib_rs(method_names) == SpliceTemplate(TEMPLATE_LIB_RS, method_names)


(***************************************************************************)
(* Profile-specific data.                                                  *)
(***************************************************************************)
TEMPLATE_CARGO_TOML == "template/Cargo.toml"
TEMPLATE_RUST_TOOLCHAIN == "template/rust-toolchain.toml"
TEMPLATE_CARGO_CONFIG == "template/.cargo/config.toml"
CompatToolchain == "channel=nightly,components=rust-src"
CompatCargoConfig == "target-cpu=mvp,getrandom_backend=custom"

\* write_project: the toolchain pin and the build configuration by profile.
ToolchainFile(compat) == IF compat THEN CompatToolchain ELSE TEMPLATE_RUST_TOOLCHAIN
CargoConfigFile(compat) == IF compat THEN CompatCargoConfig ELSE TEMPLATE_CARGO_CONFIG

\* Mutant of CargoArgs: the build-std flag is never passed.
CargoArgs_NeverBuildStd(compat) == <<"build", "--release">>

\* build_wasm: the arguments of the cargo command.
CargoArgs(compat) ==
    <<"build", "--release">> \o
        (IF compat THEN <<"-Zbuild-std=std,panic_abort">> ELSE <<>>)

ModernFeatureFlags ==
    { "--enable-bulk-memory", "--enable-nontrapping-float-to-int",
      "--enable-reference-types", "--enable-sign-ext" }

\* build_wasm: the cargo command, its arguments and the variable it unsets.
CargoCommand(compat) ==
    [args |-> CargoArgs(compat), env_remove |-> {"RUSTUP_TOOLCHAIN"}]

\* Mutant of WasmOptArgs: the feature flags are passed in both profiles.
WasmOptArgs_AlwaysModern(compat) == {"-Oz", "-o"} \cup ModernFeatureFlags

\* run_wasm_opt: the arguments of the wasm-opt command (as a set of flags).
WasmOptArgs(compat) ==
    {"-Oz", "-o"} \cup (IF ~compat THEN ModernFeatureFlags ELSE {})

\* Mutant of RunsWasmOpt: the skip flag is ignored.
RunsWasmOpt_Always(no_wasm_opt) == TRUE

\* build_contract: whether the optimizer / the validator stage is entered.
RunsWasmOpt(no_wasm_opt) == ~no_wasm_opt
RunsVerify(compat) == compat

(***************************************************************************)
(* State.                                                                  *)
(***************************************************************************)
VARIABLES
    pc,              \* position of build_contract; "idle" between runs
    result,          \* "none", "running", "ok" or the error the run ended with
    args,            \* the run's arguments: source, compat, no_wasm_opt
    method_names,    \* build_contract's method_names
    bytecode,        \* build_contract's bytecode (None until compiled)
    raw_size,        \* build_contract's raw_size (None until measured)
    final_size,      \* build_contract's final_size, the size it reports
    stages,          \* the stages the run has started, in order
    cnt,             \* how often the run invoked each external collaborator
    ext,             \* what each external step of the run came back with
    cargo_args,      \* the cargo command the run issued (None: not run)
    opt_args,        \* the flags the run passed to wasm-opt (None: not run)
    wrote,           \* cargo wrote the artifact during this run
    validated,       \* the file handed to the validator (None: not run)
    scratch,         \* the build-scratch directory target/monty-near-build
    outFile,         \* the file at the caller's output path
    scratchAtStart,  \* scratch when the run started
    outAtStart,      \* outFile when the run started
    prev,            \* the run before this one: its input, profile, and
                     \* whether it got as far as generating the project
    called,          \* the last call of an exported symbol of the built module
    pure             \* a function of the pipeline applied on its own: its
                     \* input and, once applied, its output

runVars ==
    <<args, method_names, bytecode, raw_size, final_size, stages, cnt, ext,
      cargo_args, opt_args, wrote, validated>>
fsVars == <<scratch, outFile>>
snapVars == <<scratchAtStart, outAtStart, prev>>
pipeVars == <<pc, result, runVars, fsVars, snapVars, called>>
vars == <<pipeVars, pure>>

Sizes == 0..MaxSize

NoCalls == [compiler |-> 0, cargo |-> 0, wasm_opt |-> 0, wasm_tools |-> 0]

NoOutcomes ==
    [read |-> "none", compiler |-> "none", cargo |-> "none",
     wasm_opt |-> "none", wasm_tools |-> "none"]

\* No scratch directory at all.
NoScratch ==
    [exists |-> FALSE, manifest |-> None, toolchain |-> None, config |-> None,
     src |-> None, target |-> None]

\* A scratch directory left behind by an earlier version of the tool: a
\* source subtree holding a file the current pipeline does not generate.
LegacyScratch ==
    [exists |-> TRUE, manifest |-> Some(TEMPLATE_CARGO_TOML),
     toolchain |-> Some(TEMPLATE_RUST_TOOLCHAIN),
     config |-> Some(TEMPLATE_CARGO_CONFIG),
     src |-> Some([lib_rs |-> None, contract_bin |-> None, other |-> {"hello.bin"}]),
     target |-> None]

\* A file at the output path that no run of the pipeline wrote.
ForeignFile ==
    [lib |-> <<>>, blob |-> [body |-> <<>>, dispatcher |-> <<>>],
     config |-> "foreign", size |-> 0, opt |-> FALSE]

\* No earlier run, or one that did not get as far as generating the project.
NoPrev == [generated |-> FALSE, source |-> [valid |-> FALSE, body |-> <<>>], compat |-> FALSE]

\* No function is being applied on its own.
NoPure == [kind |-> "none"]

NoArgs == [source |-> [valid |-> FALSE, body |-> <<>>], compat |-> FALSE, no_wasm_opt |-> FALSE]

Init ==
    /\ pc = "idle"
    /\ result = "none"
    /\ args = NoArgs
    /\ method_names = <<>>
    /\ bytecode = None
    /\ raw_size = None
    /\ final_size = None
    /\ stages = <<>>
    /\ cnt = NoCalls
    /\ ext = NoOutcomes
    /\ cargo_args = None
    /\ opt_args = None
    /\ wrote = FALSE
    /\ validated = None
    /\ \/ scratch = NoScratch /\ outFile = None
       \/ scratch = LegacyScratch /\ outFile = Some(ForeignFile)
    /\ scratchAtStart = scratch
    /\ outAtStart = outFile
    /\ prev = NoPrev
    /\ called = None
    /\ pure = NoPure

\* A `?` or bail! that returns the error from build_contract.
Fail(err) ==
    /\ pc' = "idle"
    /\ result' = err

\* The stage returned Ok: build_contract goes on to the next statement.
Goto(next) ==
    /\ pc' = next
    /\ result' = result

\* Ok(()) at the end of build_contract.
Finish ==
    /\ pc' = "idle"
    /\ result' = "ok"

\* main: Commands::Build calls build_contract with the parsed arguments.
StartRun ==
    /\ pc = "idle"
    /\ \E s \in Sources, c \in BOOLEAN, n \in BOOLEAN :
          args' = [source |-> s, compat |-> c, no_wasm_opt |-> n]
    /\ pc' = "read"
    /\ result' = "running"
    /\ method_names' = <<>>
    /\ bytecode' = None
    /\ raw_size' = None
    /\ final_size' = None
    /\ stages' = <<>>
    /\ cnt' = NoCalls
    /\ ext' = NoOutcomes
    /\ cargo_args' = None
    /\ opt_args' = None
    /\ wrote' = FALSE
    /\ validated' = None
    /\ scratchAtStart' = scratch
    /\ outAtStart' = outFile
    /\ prev' = IF \E i \in 1..Len(stages) : stages[i] = "Generate"
               THEN [generated |-> TRUE, source |-> args.source, compat |-> args.compat]
               ELSE NoPrev
    /\ called' = None
    /\ UNCHANGED fsVars
    /\ UNCHANGED pure

\* build_contract: fs::read_to_string(input)?
ReadSource ==
    /\ pc = "read"
    /\ \E outcome \in {"ok", "failed"} :
          /\ ext' = [ext EXCEPT !.read = outcome]
          /\ IF outcome = "ok" THEN Goto("discover") ELSE Fail("ReadFailed")
    /\ UNCHANGED <<args, method_names, bytecode, raw_size, final_size, stages,
                   cnt, cargo_args, opt_args, wrote, validated, fsVars,
                   snapVars, called>>
    /\ UNCHANGED pure

\* Mutant of discover_result: the is_empty check is missing.
discover_result_NoEmptyCheck(found) == IF ~found.ok THEN "ParseError" ELSE "ok"

\* build_contract: the `?` on find_exported_functions and the is_empty bail.
discover_result(found) ==
    IF ~found.ok THEN "ParseError"
    ELSE IF found.names = <<>> THEN "NoExportsError"
    ELSE "ok"

\* build_contract: find_exported_functions(&source)? and the is_empty bail.
Discover ==
    /\ pc = "discover"
    /\ stages' = Append(stages, "Discover")
    /\ LET found == find_exported_functions(args.source)
           res == discover_result(found)
       IN  /\ method_names' = found.names
           /\ IF res = "ok" THEN Goto("precompile") ELSE Fail(res)
    /\ UNCHANGED <<args, bytecode, raw_size, final_size, cnt, ext, cargo_args,
                   opt_args, wrote, validated, fsVars, snapVars, called>>
    /\ UNCHANGED pure

\* precompile_contract: the map_err of MontyRun::new and the context of dump.
precompile_result(outcome) ==
    CASE outcome = "compile_error" -> "CompilationFailed:compile"
      [] outcome = "serialize_error" -> "CompilationFailed:serialize"
      [] OTHER -> "ok"

\* Mutant of Precompile: the source subtree of the scratch directory is
\* removed before the compiler is called.
Precompile_CleansFirst ==
    /\ pc = "precompile"
    /\ stages' = stages \o <<"Synthesize", "Compile">>
    /\ cnt' = [cnt EXCEPT !.compiler = @ + 1]
    /\ scratch' = [scratch EXCEPT !.src = IF scratch.exists THEN None ELSE @]
    /\ \E outcome \in {"ok", "compile_error", "serialize_error"} :
          /\ ext' = [ext EXCEPT !.compiler = outcome]
          /\ IF outcome = "ok"
             THEN /\ bytecode' = Some(CompiledBlob(args.source, method_names))
                  /\ Goto("generate")
             ELSE /\ bytecode' = bytecode
                  /\ Fail("CompilationFailed:compile")
    /\ UNCHANGED <<args, method_names, raw_size, final_size, cargo_args,
                   opt_args, wrote, validated, outFile, snapVars, called>>
    /\ UNCHANGED pure

\* precompile_contract: generate_dispatcher, MontyRun::new, runner.dump.
Precompile ==
    /\ pc = "precompile"
    /\ stages' = stages \o <<"Synthesize", "Compile">>
    /\ cnt' = [cnt EXCEPT !.compiler = @ + 1]
    /\ \E outcome \in {"ok", "compile_error", "serialize_error"} :
          /\ ext' = [ext EXCEPT !.compiler = outcome]
          /\ LET res == precompile_result(outcome)
             IN  IF res = "ok"
                 THEN /\ bytecode' = Some(CompiledBlob(args.source, method_names))
                      /\ Goto("generate")
                 ELSE /\ bytecode' = bytecode
                      /\ Fail(res)
    /\ UNCHANGED <<args, method_names, raw_size, final_size, cargo_args,
                   opt_args, wrote, validated, fsVars, snapVars, called>>
    /\ UNCHANGED pure

\* Mutant of write_project: the build configuration is written in the compat
\* profile only.
write_project_ConfigOnlyCompat(dir, names, blob, compat) ==
    LET old == IF IsSome(dir.src) THEN Get(dir.src)
               ELSE [lib_rs |-> None, contract_bin |-> None, other |-> {}]
    IN  [dir EXCEPT
            !.manifest = Some(TEMPLATE_CARGO_TOML),
            !.toolchain = Some(ToolchainFile(compat)),
            !.config = IF compat THEN Some(CargoConfigFile(compat)) ELSE @,
            !.src = Some([old EXCEPT !.lib_rs = Some(generate_lib_rs(names)),
                                     !.contract_bin = Some(blob)])]

\* write_project: the files of the generated project.  The source subtree is
\* created if missing, lib.rs and contract.bin are overwritten, and whatever
\* else the subtree holds stays.
write_project(dir, names, blob, compat) ==
    LET old == IF IsSome(dir.src) THEN Get(dir.src)
               ELSE [lib_rs |-> None, contract_bin |-> None, other |-> {}]
    IN  [dir EXCEPT
            !.manifest = Some(TEMPLATE_CARGO_TOML),
            !.toolchain = Some(ToolchainFile(compat)),
            !.config = Some(CargoConfigFile(compat)),
            !.src = Some([old EXCEPT !.lib_rs = Some(generate_lib_rs(names)),
                                     !.contract_bin = Some(blob)])]

\* Mutant of PrepareBuildDir: the source subtree is not removed.
PrepareBuildDir_KeepsSrc(dir) == [dir EXCEPT !.exists = TRUE]

\* build_contract: remove_dir_all(src) when build_dir and src exist, then
\* create_dir_all(build_dir).
PrepareBuildDir(dir) ==
    [dir EXCEPT !.exists = TRUE,
                !.src = IF dir.exists /\ IsSome(dir.src) THEN None ELSE @]

\* Mutant of Generate: the source subtree is not removed and the glue source
\* is appended to the lib.rs that is there.
Generate_AppendsGlue ==
    /\ pc = "generate"
    /\ stages' = Append(stages, "Generate")
    /\ LET old == IF IsSome(scratch.src) /\ IsSome(Get(scratch.src).lib_rs)
                  THEN Get(Get(scratch.src).lib_rs) ELSE <<>>
           dir == write_project([scratch EXCEPT !.exists = TRUE], method_names,
                                Get(bytecode), args.compat)
       IN  scratch' = [dir EXCEPT !.src =
                          Some([Get(dir.src) EXCEPT
                                  !.lib_rs = Some(old \o generate_lib_rs(method_names))])]
    /\ Goto("build")
    /\ UNCHANGED <<args, method_names, bytecode, raw_size, final_size, cnt,
                   ext, cargo_args, opt_args, wrote, validated, outFile,
                   snapVars, called>>
    /\ UNCHANGED pure

\* build_contract: the scratch directory is prepared and the project written.
Generate ==
    /\ pc = "generate"
    /\ stages' = Append(stages, "Generate")
    /\ scratch' = write_project(PrepareBuildDir(scratch), method_names,
                                Get(bytecode), args.compat)
    /\ Goto("build")
    /\ UNCHANGED <<args, method_names, bytecode, raw_size, final_size, cnt,
                   ext, cargo_args, opt_args, wrote, validated, outFile,
                   snapVars, called>>
    /\ UNCHANGED pure

\* What cargo links from the project on disk: the glue source, the embedded
\* blob and the build configuration.
BuiltArtifact(dir) ==
    [lib |-> Get(Get(dir.src).lib_rs), blob |-> Get(Get(dir.src).contract_bin),
     config |-> Get(dir.config), size |-> MaxSize, opt |-> FALSE]

\* Mutant of build_wasm_result: the exit status is not looked at.
build_wasm_result_IgnoresExit(success, exists) ==
    IF ~exists THEN "ArtifactMissing" ELSE "ok"

\* Mutant of build_wasm_result: the existence of the artifact is not checked.
build_wasm_result_NoExistsCheck(success, exists) ==
    IF ~success THEN "BuildFailed" ELSE "ok"

\* build_wasm: the result from the exit status and wasm_path.exists().
build_wasm_result(success, exists) ==
    IF ~success THEN "BuildFailed"
    ELSE IF ~exists THEN "ArtifactMissing"
    ELSE "ok"

\* build_wasm: cargo runs in the project directory; it exits zero or not, and
\* on a zero exit has written the artifact or has left the path as it was.
Build ==
    /\ pc = "build"
    /\ stages' = Append(stages, "Build")
    /\ cnt' = [cnt EXCEPT !.cargo = @ + 1]
    /\ cargo_args' = Some(CargoCommand(args.compat))
    /\ \E success \in BOOLEAN, writes \in BOOLEAN :
          /\ ext' = [ext EXCEPT !.cargo = IF success THEN "success" ELSE "failed"]
          /\ wrote' = (success /\ writes)
          /\ scratch' = IF success /\ writes
                        THEN [scratch EXCEPT !.target = Some(BuiltArtifact(scratch))]
                        ELSE scratch
          /\ LET res == build_wasm_result(success, IsSome(scratch'.target))
             IN  IF res = "ok" THEN Goto("copy") ELSE Fail(res)
    /\ UNCHANGED <<args, method_names, bytecode, raw_size, final_size,
                   opt_args, validated, outFile, snapVars, called>>
    /\ UNCHANGED pure

\* Mutant of CopyToOutput: after the copy the run goes on to verification
\* (or the report) without entering the optimizer.
CopyToOutput_SkipsOptimizer ==
    /\ pc = "copy"
    /\ stages' = Append(stages, "Copy")
    /\ IF IsSome(scratch.target)
       THEN /\ outFile' = scratch.target
            /\ raw_size' = Some(Get(outFile').size)
            /\ Goto(IF RunsVerify(args.compat) THEN "verify" ELSE "report")
       ELSE /\ UNCHANGED <<outFile, raw_size>>
            /\ Fail("CopyFailed")
    /\ UNCHANGED <<args, method_names, bytecode, final_size, cnt, ext,
                   cargo_args, opt_args, wrote, validated, scratch, snapVars,
                   called>>
    /\ UNCHANGED pure

\* build_contract: fs::copy(&wasm_path, &output_abs)? and raw_size.  The copy
\* of a file that does not exist is an error.
CopyToOutput ==
    /\ pc = "copy"
    /\ stages' = Append(stages, "Copy")
    /\ IF IsSome(scratch.target)
       THEN /\ outFile' = scratch.target
            /\ raw_size' = Some(Get(outFile').size)
            /\ Goto(IF RunsWasmOpt(args.no_wasm_opt) THEN "optimize" ELSE "report")
       ELSE /\ UNCHANGED <<outFile, raw_size>>
            /\ Fail("CopyFailed")
    /\ UNCHANGED <<args, method_names, bytecode, final_size, cnt, ext,
                   cargo_args, opt_args, wrote, validated, scratch, snapVars,
                   called>>
    /\ UNCHANGED pure

\* Mutant of run_wasm_opt_result: a non-zero exit is only a warning.
run_wasm_opt_result_IgnoresFailure(outcome) == "ok"

\* Mutant of run_wasm_opt_result: a missing wasm-opt is an error.
run_wasm_opt_result_NotFoundFatal(outcome) ==
    IF outcome = "success" THEN "ok" ELSE "OptimizationFailed"

\* run_wasm_opt: the match on the Command's output.
run_wasm_opt_result(outcome) ==
    CASE outcome = "success" -> "ok"
      [] outcome = "failed" -> "OptimizationFailed"
      [] OTHER -> "ok"

\* run_wasm_opt: wasm-opt rewrites the file at the output path in place.
Optimize ==
    /\ pc = "optimize"
    /\ stages' = Append(stages, "Optimize")
    /\ cnt' = [cnt EXCEPT !.wasm_opt = @ + 1]
    /\ opt_args' = Some(WasmOptArgs(args.compat))
    /\ \E outcome \in {"notfound", "failed", "success"}, size \in Sizes :
          /\ ext' = [ext EXCEPT !.wasm_opt = outcome]
          /\ outFile' = IF outcome = "success"
                        THEN Some([Get(outFile) EXCEPT !.opt = TRUE, !.size = size])
                        ELSE outFile
          /\ LET res == run_wasm_opt_result(outcome)
             IN  IF res = "ok" THEN Goto("report") ELSE Fail(res)
    /\ UNCHANGED <<args, method_names, bytecode, raw_size, final_size,
                   cargo_args, wrote, validated, scratch, snapVars, called>>
    /\ UNCHANGED pure

\* build_contract: final_size is read from the output path and reported.
Report ==
    /\ pc = "report"
    /\ final_size' = Some(Get(outFile).size)
    /\ IF RunsVerify(args.compat) THEN Goto("verify") ELSE Finish
    /\ UNCHANGED <<args, method_names, bytecode, raw_size, stages, cnt, ext,
                   cargo_args, opt_args, wrote, validated, fsVars, snapVars,
                   called>>
    /\ UNCHANGED pure

\* Mutant of VerifyTarget: the validator is given the build artifact in the
\* scratch directory instead of the file at the output path.
VerifyTarget_BuildArtifact(output, artifact) == artifact

\* build_contract: verify_no_bulk_memory(&output_abs), the file validated.
VerifyTarget(output, artifact) == output

\* Mutant of verify_result: a validator failure is only a warning.
verify_result_WarnOnly(outcome) == "ok"

\* verify_no_bulk_memory: the match on the Command's output.
verify_result(outcome) ==
    CASE outcome = "pass" -> "ok"
      [] outcome = "violation" -> "VerificationFailed"
      [] OTHER -> "ok"

\* verify_no_bulk_memory: wasm-tools validates the file at the output path.
Verify ==
    /\ pc = "verify"
    /\ stages' = Append(stages, "Verify")
    /\ cnt' = [cnt EXCEPT !.wasm_tools = @ + 1]
    /\ \E outcome \in {"notfound", "violation", "pass"} :
          /\ ext' = [ext EXCEPT !.wasm_tools = outcome]
          /\ validated' = IF outcome = "notfound" THEN validated
                           ELSE VerifyTarget(outFile, scratch.target)
          /\ LET res == verify_result(outcome)
             IN  IF res = "ok" THEN Finish ELSE Fail(res)
    /\ UNCHANGED <<args, method_names, bytecode, raw_size, final_size,
                   cargo_args, opt_args, wrote, fsVars, snapVars, called>>
    /\ UNCHANGED pure

(***************************************************************************)
(* The built module at run time.  The sandbox calls an exported symbol;    *)
(* the export hands its selector to the template's run_method, which runs  *)
(* the blob with _method bound to the selector.                            *)
(***************************************************************************)
\* The dispatcher's statements: an "if" opens a chain, an "elif" belongs to
\* the chain before it and runs only if no branch of that chain has run.
RECURSIVE RunDispatcher(_, _, _)
RunDispatcher(dispatcher, method, taken) ==
    IF dispatcher = <<>> THEN <<>>
    ELSE LET b == Head(dispatcher)
             fires == b.test = method /\ (b.kw = "if" \/ ~taken)
         IN  (IF fires THEN << b.call >> ELSE <<>>)
                 \o RunDispatcher(Tail(dispatcher), method,
                                  IF b.kw = "if" THEN fires ELSE taken \/ fires)

\* The template's run_method(bytecode, method): the blob runs with _method
\* bound to the selector; the result is the sequence of entry points invoked.
run_method(blob, method) == RunDispatcher(blob.dispatcher, method, FALSE)

\* The call of the exported symbol n of a module.
CallSymbol(module, n) ==
    LET exps == SelectSeq(module.lib, LAMBDA it : it.kind = "export" /\ it.sym = n)
    IN  IF exps = <<>>
        THEN [symbol |-> n, found |-> FALSE, selector |-> <<>>, invoked |-> <<>>]
        ELSE [symbol |-> n, found |-> TRUE, selector |-> exps[1].sel,
              invoked |-> run_method(module.blob, exps[1].sel)]

\* tests/sandbox.rs: the module that a successful run built and delivered is
\* deployed and one of the discovered methods is called.
CallExport ==
    /\ pc = "idle"
    /\ result = "ok"
    /\ wrote
    /\ IsSome(outFile)
    /\ \E i \in 1..Len(method_names) :
          called' = Some(CallSymbol(Get(outFile), method_names[i]))
    /\ UNCHANGED <<pc, result, runVars, fsVars, snapVars>>
    /\ UNCHANGED pure

Next ==
    \/ StartRun
    \/ ReadSource
    \/ Discover
    \/ Precompile
    \/ Generate
    \/ Build
    \/ CopyToOutput
    \/ Optimize
    \/ Report
    \/ Verify
    \/ CallExport

Spec == Init /\ [][Next]_vars


(***************************************************************************)
(* The functions of the pipeline applied on their own, to every input of a *)
(* bounded set: discovery, dispatcher synthesis and glue generation on     *)
(* every source of up to MaxStmts statements; the template splicing on     *)
(* every template of up to MaxTemplateItems items; the size-saving         *)
(* computation of run_wasm_opt on every pair of sizes up to MaxBytes.      *)
(***************************************************************************)
RECURSIVE SeqsUpTo(_, _)
SeqsUpTo(S, n) ==
    IF n = 0 THEN { <<>> }
    ELSE LET shorter == SeqsUpTo(S, n - 1)
         IN  shorter \cup
                { Append(t, x) : t \in { u \in shorter : Len(u) = n - 1 }, x \in S }

\* The pipeline is not running.
PipelineAtRest ==
    /\ pc = "idle"
    /\ result = "none"
    /\ args = NoArgs
    /\ method_names = <<>>
    /\ bytecode = None
    /\ raw_size = None
    /\ final_size = None
    /\ stages = <<>>
    /\ cnt = NoCalls
    /\ ext = NoOutcomes
    /\ cargo_args = None
    /\ opt_args = None
    /\ wrote = FALSE
    /\ validated = None
    /\ scratch = NoScratch
    /\ outFile = None
    /\ scratchAtStart = NoScratch
    /\ outAtStart = None
    /\ prev = NoPrev
    /\ called = None

\* Top-level statements: three public functions, a private one, and a class
\* holding a method with a public name.
Stmts ==
    { FunctionDef(NameA), FunctionDef(NameB), FunctionDef(NameC),
      FunctionDef(NameHelper), ClassDef(NameClass, <<NameB>>) }

GenSources ==
    { [valid |-> TRUE, body |-> b] : b \in SeqsUpTo(Stmts, MaxStmts) }
        \cup {SrcBad}

CodegenInit ==
    /\ PipelineAtRest
    /\ \E src \in GenSources :
          pure = [kind |-> "codegen", phase |-> "source", source |-> src,
                  err |-> "none", names |-> <<>>, dispatcher |-> <<>>,
                  lib |-> <<>>]

\* build_contract: find_exported_functions and the is_empty bail.
PureDiscover ==
    /\ pure.kind = "codegen" /\ pure.phase = "source"
    /\ LET found == find_exported_functions(pure.source)
           res == discover_result(found)
       IN  pure' = [pure EXCEPT !.names = found.names,
                                !.err = IF res = "ok" THEN "none" ELSE res,
                                !.phase = IF res = "ok" THEN "names" ELSE "failed"]
    /\ UNCHANGED pipeVars

\* precompile_contract: generate_dispatcher(method_names).
PureSynthesize ==
    /\ pure.kind = "codegen" /\ pure.phase = "names"
    /\ pure' = [pure EXCEPT !.dispatcher = generate_dispatcher(pure.names),
                            !.phase = "dispatcher"]
    /\ UNCHANGED pipeVars

\* write_project: generate_lib_rs(method_names).
PureGenerateGlue ==
    /\ pure.kind = "codegen" /\ pure.phase = "dispatcher"
    /\ pure' = [pure EXCEPT !.lib = generate_lib_rs(pure.names),
                            !.phase = "glue"]
    /\ UNCHANGED pipeVars

CodegenNext ==
    \/ PureDiscover
    \/ PureSynthesize
    \/ PureGenerateGlue

SpecCodegen == CodegenInit /\ [][CodegenNext]_vars

\* Glue templates: every sequence of up to MaxTemplateItems items, each a
\* line of fixed text or one of the two markers, and the template itself.
TemplateItems == { Item("prelude", <<>>, <<>>), MARKER_BYTECODE, MARKER_EXPORTS }

Templates == SeqsUpTo(TemplateItems, MaxTemplateItems) \cup {TEMPLATE_LIB_RS}

TemplateInit ==
    /\ PipelineAtRest
    /\ \E t \in Templates, names \in { <<NameA>>, <<NameA, NameB>> } :
          pure = [kind |-> "template", phase |-> "template", template |-> t,
                  names |-> names, err |-> "none", lib |-> None]

\* write_project: fs::write(src_dir.join("lib.rs"), generate_lib_rs(..))?
\* with the glue template t in the place of TEMPLATE_LIB_RS.
PureSplice ==
    /\ pure.kind = "template" /\ pure.phase = "template"
    /\ LET res == generate_lib_rs_result(pure.template)
       IN  IF res = "ok"
           THEN pure' = [pure EXCEPT
                            !.lib = Some(SpliceTemplate(pure.template, pure.names)),
                            !.phase = "written"]
           ELSE pure' = [pure EXCEPT !.err = res, !.phase = "failed"]
    /\ UNCHANGED pipeVars

TemplateNext == PureSplice

SpecTemplate == TemplateInit /\ [][TemplateNext]_vars

\* Mutant of SaturatingSub: the plain difference.
SaturatingSub_Plain(a, b) == a - b

\* u64::saturating_sub
SaturatingSub(a, b) == IF a >= b THEN a - b ELSE 0

\* run_wasm_opt: pct as printed by {pct:.0}, the percentage rounded to the
\* nearest integer (ties to even); 0.0 when raw_size is 0.
Pct(saved, raw) ==
    IF raw > 0
    THEN LET q == (saved * 100) \div raw
             r == (saved * 100) % raw
         IN  IF 2 * r > raw \/ (2 * r = raw /\ q % 2 = 1) THEN q + 1 ELSE q
    ELSE 0

\* run_wasm_opt, the success arm: saved and pct from raw_size and opt_size.
Savings(raw, opt) ==
    LET saved == SaturatingSub(raw, opt)
    IN  [saved |-> saved, pct |-> Pct(saved, raw)]

SavingsInit ==
    /\ PipelineAtRest
    /\ \E raw \in 0..MaxBytes, opt \in 0..MaxBytes :
          pure = [kind |-> "savings", phase |-> "sizes", raw_size |-> raw,
                  opt_size |-> opt, saved |-> 0, pct |-> 0]

\* run_wasm_opt: the report after a successful wasm-opt.
PureSavings ==
    /\ pure.kind = "savings" /\ pure.phase = "sizes"
    /\ LET sv == Savings(pure.raw_size, pure.opt_size)
       IN  pure' = [pure EXCEPT !.saved = sv.saved, !.pct = sv.pct,
                                !.phase = "reported"]
    /\ UNCHANGED pipeVars

SavingsNext == PureSavings

SpecSavings == SavingsInit /\ [][SavingsNext]_vars

(***************************************************************************)
(* Properties.                                                             *)
(***************************************************************************)
InStages(s) == \E i \in 1..Len(stages) : stages[i] = s
Pos(s) == CHOOSE i \in 1..Len(stages) : stages[i] = s
LastStage == IF stages = <<>> THEN "none" ELSE stages[Len(stages)]

\* The order of the stages in build_contract, and the order with the
\* optimizer ahead of the copy.
CopyFirstOrder ==
    <<"Discover", "Synthesize", "Compile", "Generate", "Build", "Copy",
      "Optimize", "Verify">>
OptimizeFirstOrder ==
    <<"Discover", "Synthesize", "Compile", "Generate", "Build", "Optimize",
      "Copy", "Verify">>

Rank(order, s) == CHOOSE i \in 1..Len(order) : order[i] = s

\* A stage the run has to go through: the optimizer unless skipped, the
\* verification in the compat profile, every other stage always.
Required(s) ==
    CASE s = "Optimize" -> ~args.no_wasm_opt
      [] s = "Verify" -> args.compat
      [] OTHER -> TRUE

\* The stages started so far are in the given order, none twice, and each
\* started only after every required stage before it.
FollowsOrder(order) ==
    /\ \A i, j \in 1..Len(stages) :
          i < j => Rank(order, stages[i]) < Rank(order, stages[j])
    /\ \A i \in 1..Len(stages) :
          \A k \in 1..(Rank(order, stages[i]) - 1) :
             Required(order[k]) => \E j \in 1..(i - 1) : stages[j] = order[k]

NoEligible(source) ==
    \A i \in 1..Len(source.body) :
       ~(source.body[i].kind = "FunctionDef" /\ source.body[i].name[1] # "_")

FatalOutcomes ==
    { [cond |-> InStages("Discover") /\ ~args.source.valid,
       err |-> "ParseError", stage |-> "Discover"],
      [cond |-> InStages("Discover") /\ args.source.valid /\ NoEligible(args.source),
       err |-> "NoExportsError", stage |-> "Discover"],
      [cond |-> ext.compiler = "compile_error",
       err |-> "CompilationFailed:compile", stage |-> "Compile"],
      [cond |-> ext.compiler = "serialize_error",
       err |-> "CompilationFailed:serialize", stage |-> "Compile"],
      [cond |-> ext.cargo = "failed",
       err |-> "BuildFailed", stage |-> "Build"],
      [cond |-> ext.cargo = "success" /\ ~IsSome(scratch.target),
       err |-> "ArtifactMissing", stage |-> "Build"],
      [cond |-> ext.wasm_opt = "failed",
       err |-> "OptimizationFailed", stage |-> "Optimize"],
      [cond |-> ext.wasm_tools = "violation",
       err |-> "VerificationFailed", stage |-> "Verify"] }

\* C3: a fatal outcome of a stage ends the run at once with that stage's
\* error, the failing stage being the last one started; no external process
\* is invoked more than once in a run; a run that ends in success had no
\* fatal outcome.
C3_FailFast ==
    /\ \A f \in FatalOutcomes :
          f.cond => pc = "idle" /\ result = f.err /\ LastStage = f.stage
    /\ cnt.compiler <= 1 /\ cnt.cargo <= 1 /\ cnt.wasm_opt <= 1 /\ cnt.wasm_tools <= 1
    /\ result = "ok" => \A f \in FatalOutcomes : ~f.cond

C3_Witness ==
    /\ result = "OptimizationFailed"
    /\ args.compat
    /\ cnt.wasm_tools = 0
    /\ LastStage = "Optimize"

\* C4: a run on a source with no eligible top-level function ends with
\* NoExportsError, without the bytecode compiler having been invoked and with
\* the scratch directory and the output path as they were at the start.
C4_NoExportsNoSideEffects ==
    (ext.read = "ok" /\ args.source.valid /\ NoEligible(args.source)) =>
        /\ pc \in {"discover", "idle"}
        /\ pc = "idle" => result = "NoExportsError"
        /\ cnt.compiler = 0
        /\ bytecode = None
        /\ scratch = scratchAtStart
        /\ outFile = outAtStart

C4_Witness ==
    /\ result = "NoExportsError"
    /\ IsSome(scratch.src)
    /\ IsSome(scratch.target)
    /\ IsSome(outFile)

\* C5: a compat run passes none of the four modern-feature flags to the
\* optimizer, and once it is past the build and the optimizer it does not end,
\* in success or otherwise, without the verification stage; a default run
\* never runs the verification and passes all four flags whenever it invokes
\* the optimizer.
C5_ProfileExclusivity ==
    /\ args.compat =>
          /\ IsSome(opt_args) => Get(opt_args) \cap ModernFeatureFlags = {}
          /\ (pc = "idle" /\ (result = "ok" \/ IsSome(final_size))) =>
                InStages("Verify") /\ cnt.wasm_tools = 1
    /\ ~args.compat =>
          /\ ~InStages("Verify")
          /\ cnt.wasm_tools = 0
          /\ cnt.wasm_opt > 0 =>
                IsSome(opt_args) /\ ModernFeatureFlags \subseteq Get(opt_args)

C5_Witness ==
    /\ pc = "idle" /\ result = "ok"
    /\ args.compat
    /\ cnt.wasm_opt = 1
    /\ cnt.wasm_tools = 1

\* C6: a run whose validator exits non-zero is a compat run whose build
\* succeeded and whose optimizer did not fail; it ends with
\* VerificationFailed, after the copy, with the artifact at the output path.
C6_VerificationFailedAfterCopy ==
    ext.wasm_tools = "violation" =>
        /\ pc = "idle" /\ result = "VerificationFailed"
        /\ args.compat
        /\ ext.cargo = "success" /\ ext.wasm_opt # "failed"
        /\ InStages("Copy") /\ Pos("Copy") < Pos("Verify")
        /\ IsSome(outFile)
        /\ Get(outFile).lib = Get(scratch.target).lib
        /\ Get(outFile).blob = Get(scratch.target).blob

C6_Witness ==
    /\ result = "VerificationFailed"
    /\ ext.wasm_opt = "success"
    /\ IsSome(outFile)

\* C7: a missing optimizer leaves the output file identical to the build
\* artifact and the run goes on (a compat run still runs the verification,
\* and the run does not fail with OptimizationFailed); a missing validator
\* ends the run in success.
C7_MissingToolNotFatal ==
    /\ ext.wasm_opt = "notfound" =>
          /\ pc \in {"report", "verify", "idle"}
          /\ outFile = scratch.target
          /\ pc = "idle" => result \in {"ok", "VerificationFailed"}
          /\ (pc = "idle" /\ args.compat) => cnt.wasm_tools = 1
    /\ ext.wasm_tools = "notfound" => pc = "idle" /\ result = "ok"

C7_Witness ==
    /\ result = "ok"
    /\ ext.wasm_opt = "notfound"
    /\ ext.wasm_tools = "notfound"

\* C8: a cargo that exits non-zero gives BuildFailed, a cargo that exits zero
\* with no file at the artifact path gives ArtifactMissing; in both cases
\* nothing is copied to the output path and neither wasm-opt nor wasm-tools
\* is invoked; the copy happens only after a zero exit with the file there.
C8_BuildWasmErrors ==
    /\ ext.cargo = "failed" => result = "BuildFailed"
    /\ (ext.cargo = "success" /\ ~IsSome(scratch.target)) => result = "ArtifactMissing"
    /\ result \in {"BuildFailed", "ArtifactMissing"} =>
          /\ pc = "idle"
          /\ ~InStages("Copy")
          /\ outFile = outAtStart
          /\ raw_size = None
          /\ cnt.wasm_opt = 0 /\ cnt.wasm_tools = 0
    /\ InStages("Copy") => ext.cargo = "success" /\ IsSome(scratch.target)

C8_Witness == result = "ArtifactMissing" /\ IsSome(outAtStart)

\* C9: a run with the skip flag never invokes the optimizer, and the size it
\* reports as final is the size of the build artifact, the delivered file
\* being identical to it.
C9_SkipOptimizer ==
    args.no_wasm_opt =>
        /\ cnt.wasm_opt = 0
        /\ opt_args = None
        /\ ~InStages("Optimize")
        /\ IsSome(final_size) =>
              /\ final_size = raw_size
              /\ Get(final_size) = Get(scratch.target).size
              /\ outFile = scratch.target

C9_Witness == result = "ok" /\ args.no_wasm_opt /\ IsSome(final_size)

\* C10: the call of the exported symbol n of the built module, n a discovered
\* method name, finds the symbol, hands the selector n to the dispatcher, and
\* the dispatcher invokes the function n once and nothing else.
C10_ExportDispatch ==
    IsSome(called) =>
        /\ Get(called).found
        /\ Get(called).selector = Get(called).symbol
        /\ Get(called).invoked = << Get(called).symbol >>

C10_Witness ==
    /\ IsSome(called)
    /\ Get(called).symbol = NameB
    /\ Get(called).invoked = << NameB >>


Range(seq) == { seq[i] : i \in 1..Len(seq) }
NoDuplicates(seq) == \A i, j \in 1..Len(seq) : i # j => seq[i] # seq[j]
CountIn(seq, x) == Cardinality({ i \in 1..Len(seq) : seq[i] = x })
CountKind(seq, kind) == Cardinality({ i \in 1..Len(seq) : seq[i].kind = kind })

\* The symbols a glue source declares #[no_mangle], in the order declared.
ExportedSymbols(lib) ==
    LET exps == SelectSeq(lib, LAMBDA it : it.kind = "export")
    IN  [i \in 1..Len(exps) |-> exps[i].sym]

\* The names of the top-level function definitions of a body whose name does
\* not start with '_', in source order.
PublicTopLevel(body) ==
    LET defs == SelectSeq(body,
                    LAMBDA st : st.kind = "FunctionDef" /\ st.name[1] # "_")
    IN  [i \in 1..Len(defs) |-> defs[i].name]

CodegenPast(phases) == pure.kind = "codegen" /\ pure.phase \in phases

\* C11: for every source that passes discovery, the symbols the glue source
\* declares are exactly the public top-level function names of the source,
\* each declared once: none renamed, none declared twice, none omitted.
C11_GlueRoundTrip ==
    CodegenPast({"glue"}) =>
        LET syms == ExportedSymbols(pure.lib)
        IN  /\ Range(syms) = Range(PublicTopLevel(pure.source.body))
            /\ NoDuplicates(syms)

\* C12: the names discovery returns for a syntactically valid source never
\* hold the same name twice, and none begins with '_'.
C12_NamesUnique ==
    (CodegenPast({"names", "dispatcher", "glue", "failed"}) /\ pure.source.valid) =>
        /\ NoDuplicates(pure.names)
        /\ \A i \in 1..Len(pure.names) : pure.names[i][1] # "_"

\* C13: discovery returns exactly the names of the top-level function
\* definitions whose name does not start with '_', in source order; a function
\* nested in a class and a private function are not returned.
C13_DiscoveryExact ==
    (CodegenPast({"names", "dispatcher", "glue", "failed"}) /\ pure.source.valid) =>
        /\ pure.names = PublicTopLevel(pure.source.body)
        /\ \A i \in 1..Len(pure.names) :
              /\ pure.names[i][1] # "_"
              /\ \E k \in 1..Len(pure.source.body) :
                    /\ pure.source.body[k].kind = "FunctionDef"
                    /\ pure.source.body[k].name = pure.names[i]

C13_Witness ==
    /\ CodegenPast({"names"})
    /\ pure.source.body =
          << FunctionDef(NameHelper), ClassDef(NameClass, <<NameB>>), FunctionDef(NameA) >>
    /\ pure.names = << NameA >>

\* C14: for the names [n1..nk], k >= 1, the dispatcher has exactly k branches
\* in the same order, an "if" for n1 and an "elif" for each of n2..nk, each
\* testing its own name and calling it, and no unconditional branch: a
\* selector equal to none of the names invokes nothing.
C14_DispatcherShape ==
    CodegenPast({"dispatcher", "glue"}) =>
        LET d == pure.dispatcher
            n == pure.names
        IN  /\ Len(n) >= 1
            /\ Len(d) = Len(n)
            /\ d[1].kw = "if"
            /\ \A i \in 2..Len(d) : d[i].kw = "elif"
            /\ \A i \in 1..Len(d) : d[i].test = n[i] /\ d[i].call = n[i]
            /\ \A sel \in {NameA, NameB, NameC, NameHelper, NameClass} \ Range(n) :
                  RunDispatcher(d, sel, FALSE) = <<>>

C14_Witness ==
    /\ CodegenPast({"dispatcher"})
    /\ pure.names = << NameA, NameB, NameC >>
    /\ Len(pure.dispatcher) = 3

TemplateDone == pure.kind = "template" /\ pure.phase # "template"

C16_SourceTreeRegenerated ==
    /\ InStages("Generate") =>
          /\ IsSome(scratch.src)
          /\ Get(scratch.src).other = {}
          /\ IsSome(Get(scratch.src).lib_rs)
          /\ ExportedSymbols(Get(Get(scratch.src).lib_rs)) = method_names
          /\ Get(scratch.src).contract_bin = bytecode
    /\ IsSome(scratchAtStart.target) => IsSome(scratch.target)
    /\ scratch.target # scratchAtStart.target => wrote

C16_Witness ==
    /\ InStages("Generate")
    /\ scratchAtStart = LegacyScratch
    /\ Get(scratch.src).other = {}

\* C17: a run that generates the project with the input and the profile of
\* the run before it, which generated it too, leaves the glue source, the
\* manifest, the toolchain pin and the build configuration as that run left
\* them.
C17_Idempotent ==
    (InStages("Generate") /\ prev.generated
        /\ prev.source = args.source /\ prev.compat = args.compat) =>
        /\ scratch.manifest = scratchAtStart.manifest
        /\ scratch.toolchain = scratchAtStart.toolchain
        /\ scratch.config = scratchAtStart.config
        /\ Get(scratch.src).lib_rs = Get(scratchAtStart.src).lib_rs

C17_Witness ==
    /\ pc = "idle" /\ result = "ok"
    /\ prev.generated
    /\ prev.source = args.source /\ prev.compat = args.compat
    /\ args.compat

\* C18: within a run the toolchain pin and the build configuration written,
\* the build-std flag of the cargo command, the optimizer's feature flags and
\* the verification all follow the run's one profile: build-std is passed
\* exactly in the compat profile, RUSTUP_TOOLCHAIN is unset in both.
C18_ProfileFixed ==
    /\ InStages("Generate") =>
          /\ scratch.toolchain
                = Some(IF args.compat THEN CompatToolchain ELSE TEMPLATE_RUST_TOOLCHAIN)
          /\ scratch.config
                = Some(IF args.compat THEN CompatCargoConfig ELSE TEMPLATE_CARGO_CONFIG)
    /\ IsSome(cargo_args) =>
          /\ ("-Zbuild-std=std,panic_abort" \in Range(Get(cargo_args).args)) <=> args.compat
          /\ "RUSTUP_TOOLCHAIN" \in Get(cargo_args).env_remove
    /\ IsSome(opt_args) =>
          /\ args.compat => Get(opt_args) \cap ModernFeatureFlags = {}
          /\ ~args.compat => ModernFeatureFlags \subseteq Get(opt_args)
    /\ InStages("Verify") => args.compat
    /\ (pc = "idle" /\ IsSome(final_size) /\ args.compat) => InStages("Verify")

C18_Witness ==
    /\ pc = "idle" /\ result = "ok"
    /\ args.compat
    /\ IsSome(cargo_args) /\ IsSome(opt_args)
    /\ InStages("Verify")
    /\ prev.generated /\ ~prev.compat

\* C19: the saving reported after a successful wasm-opt is
\* max(raw_size - opt_size, 0), never negative, and the percentage is 0 when
\* raw_size is 0.
C19_Savings ==
    (pure.kind = "savings" /\ pure.phase = "reported") =>
        /\ pure.saved = IF pure.raw_size > pure.opt_size
                        THEN pure.raw_size - pure.opt_size ELSE 0
        /\ pure.saved >= 0
        /\ pure.raw_size = 0 => pure.pct = 0
        /\ pure.pct \in 0..100

C19_Witness ==
    /\ pure.kind = "savings" /\ pure.phase = "reported"
    /\ pure.raw_size = 0
    /\ pure.opt_size > 0
    /\ pure.saved = 0 /\ pure.pct = 0

\* C20: the file handed to the validator is the file at the output path, and
\* it stays as validated to the end of the run; verification starts only
\* after the optimizer, when it is not skipped, has returned without failing.
C20_ValidatedIsDelivered ==
    /\ IsSome(validated) => InStages("Verify") /\ validated = outFile
    /\ (InStages("Verify") /\ ~args.no_wasm_opt) =>
          /\ InStages("Optimize")
          /\ Pos("Optimize") < Pos("Verify")
          /\ ext.wasm_opt \in {"success", "notfound"}
    /\ (result = "ok" /\ ext.wasm_tools = "pass") =>
          IsSome(outFile) /\ validated = outFile

C20_Witness ==
    /\ result = "ok"
    /\ ext.wasm_tools = "pass"
    /\ ext.wasm_opt = "success"
    /\ validated = outFile
    /\ outFile # scratch.target


\* Every selector an export of the glue source passes is tested by a branch
\* of the dispatcher, and running the dispatcher on it invokes a function.
SelectorsCovered(lib, dispatcher) ==
    \A i \in 1..Len(lib) :
        lib[i].kind = "export" =>
            /\ \E k \in 1..Len(dispatcher) : dispatcher[k].test = lib[i].sel
            /\ RunDispatcher(dispatcher, lib[i].sel, FALSE) # <<>>

\* C21: in the generated project, and in every module built from it, the
\* selector each exported symbol passes to run_method equals the name tested
\* by some branch of the dispatcher compiled into the blob next to it, so no
\* exported symbol reaches the dispatcher's fall-through.
C21_NoFallThrough ==
    /\ InStages("Generate") =>
          /\ CountKind(Get(Get(scratch.src).lib_rs), "export") >= 1
          /\ SelectorsCovered(Get(Get(scratch.src).lib_rs),
                              Get(Get(scratch.src).contract_bin).dispatcher)
    /\ IsSome(scratch.target) =>
          SelectorsCovered(Get(scratch.target).lib, Get(scratch.target).blob.dispatcher)
    /\ IsSome(outFile) =>
          SelectorsCovered(Get(outFile).lib, Get(outFile).blob.dispatcher)

C21_Witness ==
    /\ pc = "idle" /\ result = "ok"
    /\ Len(method_names) = 2
    /\ CountKind(Get(outFile).lib, "export") = 2
    /\ Len(Get(outFile).blob.dispatcher) = 2
    /\ Get(outFile).lib = Get(Get(scratch.src).lib_rs)

\* C22: whenever a run has copied an artifact to the output path, the
\* artifact was written by the cargo build of that run and holds the glue
\* source and the blob the run generated; an artifact an earlier run left at
\* the artifact path is never delivered.
C22_ArtifactFromThisRun ==
    (InStages("Copy") /\ IsSome(outFile)) =>
        /\ wrote
        /\ Get(outFile).blob = Get(bytecode)
        /\ Get(outFile).lib = Get(Get(scratch.src).lib_rs)

\* C23: a run that fails while reading the input, in discovery or in the
\* compilation or serialization of the bytecode leaves the scratch directory
\* exactly as it found it; the directory changes only from generation on.
C23_ScratchUntouchedBeforeGenerate ==
    /\ result \in {"ReadFailed", "ParseError", "NoExportsError",
                   "CompilationFailed:compile", "CompilationFailed:serialize"}
          => scratch = scratchAtStart
    /\ ~InStages("Generate") => scratch = scratchAtStart

C23_Witness ==
    /\ pc = "idle"
    /\ result \in {"CompilationFailed:compile", "CompilationFailed:serialize"}
    /\ prev.generated
    /\ IsSome(scratch.src)
    /\ IsSome(Get(scratch.src).lib_rs)
    /\ scratch = scratchAtStart

\* The project files a run with this input and this profile generates,
\* whatever the scratch directory held before.
ExpectedProject(source, compat) ==
    LET names == PublicTopLevel(source.body)
    IN  [manifest |-> Some(TEMPLATE_CARGO_TOML),
         toolchain |-> Some(IF compat THEN CompatToolchain ELSE TEMPLATE_RUST_TOOLCHAIN),
         config |-> Some(IF compat THEN CompatCargoConfig ELSE TEMPLATE_CARGO_CONFIG),
         lib_rs |-> Some(generate_lib_rs(names)),
         contract_bin |-> Some(CompiledBlob(source, names))]

ProjectFiles(dir) ==
    [manifest |-> dir.manifest, toolchain |-> dir.toolchain, config |-> dir.config,
     lib_rs |-> Get(dir.src).lib_rs, contract_bin |-> Get(dir.src).contract_bin]

\* C24: after a run that reached generation, whatever runs came before it,
\* the manifest, the toolchain pin, the build configuration, the glue source
\* and the blob are those of the run's input and profile alone; no toolchain
\* pin or build configuration of the other profile is left.
C24_ProjectDependsOnRunOnly ==
    InStages("Generate") =>
        /\ ProjectFiles(scratch) = ExpectedProject(args.source, args.compat)
        /\ scratch.toolchain # Some(ToolchainFile(~args.compat))
        /\ scratch.config # Some(CargoConfigFile(~args.compat))

C24_Witness ==
    /\ InStages("Generate")
    /\ prev.generated
    /\ prev.compat /\ ~args.compat
    /\ prev.source # args.source
    /\ scratchAtStart.config = Some(CompatCargoConfig)
    /\ scratch.config = Some(TEMPLATE_CARGO_CONFIG)

====
